---- MODULE Spec2Model ----
(***************************************************************************)
(* Model of utils/check_ads_tables.py: a straight-line script that opens   *)
(* one psycopg2 connection, issues up to six SELECT statements against the *)
(* ADS tables and prints what it reads.  The database is modelled by the   *)
(* contents of the four tables; a table is a bag of rows (a function from  *)
(* row to number of copies), a row carrying the columns the statements     *)
(* filter or order on.                                                     *)
(***************************************************************************)
EXTENDS Integers, Sequences, FiniteSets, TLC

VARIABLES
    environ,        \* os.environ, restricted to the key DATABASE_URL
    database_url,   \* module-level name database_url
    db,             \* contents of the four tables
    pc,             \* the statement the script is about to execute
    conn,           \* state of the connection object
    cur,            \* state of the cursor object
    locals,         \* names bound inside the try block
    exc,            \* the exception caught by the handler ("none" if none)
    out,            \* lines printed to standard output
    calls,          \* psycopg2 calls made so far, in order
    exit_code       \* <<>> while the process runs, <<status>> once it ended

vars == <<environ, database_url, db, pc, conn, cur, locals, exc, out, calls, exit_code>>

-----------------------------------------------------------------------------
(* Bounds of the model *)

MaxRows == 4        \* rows in the database, all tables together
MaxTime == 2        \* created_at takes the values 1..MaxTime

(* Program constants *)

RecentLimit == 3    \* LIMIT 3 of the three recent-rows statements

DefaultUrl == "postgres://postgres@localhost:5432/postgres"
CustomUrl == "postgres://ads@db.internal:5432/ads"

-----------------------------------------------------------------------------
(* The environment and the database *)

Times == 1..MaxTime
TreeIds == {"default", "other"}

NullifierRows == [created_at : Times, is_active : BOOLEAN]
CommitRows == [created_at : Times]
BatchRows == [created_at : Times]
TreeRows == [tree_id : TreeIds]

Min(a, b) == IF a < b THEN a ELSE b

RECURSIVE SumOver(_, _)
SumOver(t, S) ==
    IF S = {} THEN 0
    ELSE LET r == CHOOSE x \in S : TRUE IN t[r] + SumOver(t, S \ {r})

Size(t) == SumOver(t, DOMAIN t)

Tables(Rows, k, each) == {t \in [Rows -> 0..Min(k, each)] : Size(t) <= k}

Databases ==
    UNION { UNION { UNION {
        { [nullifiers |-> n, ads_state_commits |-> c, tree_state |-> ts, proof_batches |-> b] :
            b \in Tables(BatchRows, MaxRows - Size(n) - Size(c) - Size(ts), MaxRows) } :
          c \in Tables(CommitRows, MaxRows - Size(n) - Size(ts), MaxRows) } :
          n \in Tables(NullifierRows, MaxRows - Size(ts), MaxRows) } :
          ts \in Tables(TreeRows, MaxRows, 1) }

EmptyEnviron == [k \in {} |-> ""]
Environs == {EmptyEnviron, [DATABASE_URL |-> CustomUrl]}

EnvironGet(env, key, default) == IF key \in DOMAIN env THEN env[key] ELSE default

-----------------------------------------------------------------------------
(* The statements the script sends.  limit is <<>> for no LIMIT clause. *)

NullifierCountStmt ==
    [kind |-> "SELECT", cols |-> "COUNT(*)", table |-> "nullifiers",
     where |-> "is_active = true", order |-> "", limit |-> <<>>]

\* variant: the detail statement without its WHERE clause
RecentNullifiersStmtAnyStatus ==
    [kind |-> "SELECT", cols |-> "value, tree_index, created_at", table |-> "nullifiers",
     where |-> "", order |-> "created_at DESC", limit |-> <<RecentLimit>>]

RecentNullifiersStmt ==
    [kind |-> "SELECT", cols |-> "value, tree_index, created_at", table |-> "nullifiers",
     where |-> "is_active = true", order |-> "created_at DESC", limit |-> <<RecentLimit>>]

CommitCountStmt ==
    [kind |-> "SELECT", cols |-> "COUNT(*)", table |-> "ads_state_commits",
     where |-> "", order |-> "", limit |-> <<>>]

\* variant: the detail statement with LIMIT 2
RecentCommitsStmtLimitTwo ==
    [kind |-> "SELECT", cols |-> "batch_id, created_at", table |-> "ads_state_commits",
     where |-> "", order |-> "created_at DESC", limit |-> <<2>>]

RecentCommitsStmt ==
    [kind |-> "SELECT", cols |-> "batch_id, created_at", table |-> "ads_state_commits",
     where |-> "", order |-> "created_at DESC", limit |-> <<RecentLimit>>]

TreeStateStmt ==
    [kind |-> "SELECT", cols |-> "total_nullifiers, next_available_index, updated_at",
     table |-> "tree_state", where |-> "tree_id = 'default'", order |-> "", limit |-> <<>>]

\* variant: a statement that removes the rows instead of reading them
DeleteBatchesStmt ==
    [kind |-> "DELETE", cols |-> "", table |-> "proof_batches", where |-> "", order |-> "",
     limit |-> <<>>]

RecentBatchesStmt ==
    [kind |-> "SELECT", cols |-> "id, transaction_count, proof_status, created_at",
     table |-> "proof_batches", where |-> "", order |-> "created_at DESC",
     limit |-> <<RecentLimit>>]

-----------------------------------------------------------------------------
(* What the server does with a statement *)

Match(stmt, r) ==
    CASE stmt.where = "is_active = true" -> r.is_active
      [] stmt.where = "tree_id = 'default'" -> r.tree_id = "default"
      [] OTHER -> TRUE

Matching(stmt, t) == {r \in DOMAIN t : t[r] > 0 /\ Match(stmt, r)}

CountRows(stmt, t) == SumOver(t, Matching(stmt, t))

Occ(s, r) == Cardinality({i \in DOMAIN s : s[i] = r})

SortedDesc(s) == \A i \in 1..(Len(s) - 1) : s[i].created_at >= s[i + 1].created_at

(* The result sets a row-returning SELECT may produce: the matching rows,  *)
(* in the requested order (rows with equal keys in any order), cut to the  *)
(* first LIMIT of them.                                                    *)
RowSeqs(stmt, t) ==
    LET M == Matching(stmt, t)
        n == CountRows(stmt, t)
        k == IF stmt.limit = <<>> THEN n ELSE Min(n, stmt.limit[1])
    IN  { s \in [1..k -> M] :
            /\ \A r \in M : Occ(s, r) <= t[r]
            /\ stmt.order = "created_at DESC" =>
                 /\ SortedDesc(s)
                 /\ \A r \in M : Occ(s, r) < t[r] =>
                        \A i \in 1..k : s[i].created_at >= r.created_at }

(* The outcomes of executing a statement: the database afterwards and the  *)
(* rows the cursor then holds.                                             *)
Exec(stmt, d) ==
    LET t == d[stmt.table] IN
    CASE stmt.kind = "SELECT" /\ stmt.cols = "COUNT(*)" ->
            { [db |-> d, rows |-> << <<CountRows(stmt, t)>> >>] }
      [] stmt.kind = "SELECT" ->
            { [db |-> d, rows |-> s] : s \in RowSeqs(stmt, t) }
      [] stmt.kind = "DELETE" ->
            { [db |-> [d EXCEPT ![stmt.table] =
                          [r \in DOMAIN t |-> IF Match(stmt, r) THEN 0 ELSE t[r]]],
               rows |-> <<>>] }

(* cursor.fetchone(): <<>> stands for None, <<row>> for a row *)
fetchone(rows) == IF rows = <<>> THEN <<>> ELSE <<rows[1]>>

(* cursor.fetchall() *)
fetchall(rows) == rows

-----------------------------------------------------------------------------
(* Printing *)

Line(kind, val) == [kind |-> kind, val |-> val]

RowLines(kind, rows) == [i \in 1..Len(rows) |-> Line(kind, rows[i])]

Bind(name, val) == (name :> val) @@ locals

Call(op, arg) == calls' = Append(calls, [op |-> op, arg |-> arg])

\* variant: the exception is swallowed and the script goes on to its cleanup
RaiseSwallowed(e) ==
    /\ pc' = "close"
    /\ exc' = e

Raise(e) ==
    /\ pc' = "except"
    /\ exc' = e

-----------------------------------------------------------------------------
Init ==
    /\ environ \in Environs
    /\ database_url = EnvironGet(environ, "DATABASE_URL", DefaultUrl)
    /\ db \in Databases
    /\ pc = "connect"
    /\ conn = "unbound"
    /\ cur = "unbound"
    /\ locals = [k \in {} |-> 0]
    /\ exc = "none"
    /\ out = <<>>
    /\ calls = <<>>
    /\ exit_code = <<>>

-----------------------------------------------------------------------------
(* The guards and the lines the script prints *)

\* variant: the guard lets a count of 0 through
NullifierGuardFromZero(nullifier_count) == nullifier_count >= 0

NullifierGuard(nullifier_count) == nullifier_count > 0

\* variant: no guard
CommitGuardAlways(commit_count) == TRUE

CommitGuard(commit_count) == commit_count > 0

\* variant: nothing is printed when the row is missing
TreeStateLinesSilent(tree_state) ==
    IF tree_state # <<>> THEN <<Line("tree_state", tree_state[1])>> ELSE <<>>

TreeStateLines(tree_state) ==
    IF tree_state # <<>>
    THEN <<Line("tree_state", tree_state[1])>>
    ELSE <<Line("no_tree_state", "")>>

\* variant: the second line does not carry the connection target
ErrorReportNoTarget(e, url) == <<Line("error", e), Line("hint", "")>>

ErrorReport(e, url) == <<Line("error", e), Line("hint", url)>>

(* The status the interpreter exits with when the script runs off its end *)
EndOfScriptStatus == 0

-----------------------------------------------------------------------------
(* The script, statement by statement *)

\* conn = psycopg2.connect(database_url)
Connect ==
    /\ pc = "connect"
    /\ Call("connect", database_url)
    /\ \/ /\ conn' = "open"
          /\ pc' = "cursor"
          /\ UNCHANGED exc
       \/ /\ Raise("OperationalError: could not connect")
          /\ UNCHANGED conn
    /\ UNCHANGED <<environ, database_url, db, cur, locals, out, exit_code>>

\* cur = conn.cursor(); print("Checking ADS table contents...")
Cursor ==
    /\ pc = "cursor"
    /\ Call("cursor", "")
    /\ \/ /\ cur' = "open"
          /\ out' = Append(out, Line("checking", ""))
          /\ pc' = "count_nullifiers"
          /\ UNCHANGED exc
       \/ /\ Raise("InterfaceError: cursor")
          /\ UNCHANGED <<cur, out>>
    /\ UNCHANGED <<environ, database_url, db, conn, locals, exit_code>>

\* the active-nullifier count, its line, and the guard of the detail query
CountNullifiers ==
    /\ pc = "count_nullifiers"
    /\ Call("execute", NullifierCountStmt)
    /\ \/ \E r \in Exec(NullifierCountStmt, db) :
            LET nullifier_count == fetchone(r.rows)[1][1] IN
            /\ db' = r.db
            /\ locals' = Bind("nullifier_count", nullifier_count)
            /\ out' = Append(out, Line("active_nullifiers", nullifier_count))
            /\ pc' = IF NullifierGuard(nullifier_count)
                     THEN "recent_nullifiers" ELSE "count_commits"
            /\ UNCHANGED exc
       \/ /\ Raise("DatabaseError: nullifier count")
          /\ UNCHANGED <<db, locals, out>>
    /\ UNCHANGED <<environ, database_url, conn, cur, exit_code>>

\* the recent active nullifiers and their lines
FetchRecentNullifiers ==
    /\ pc = "recent_nullifiers"
    /\ Call("execute", RecentNullifiersStmt)
    /\ \/ \E r \in Exec(RecentNullifiersStmt, db) :
            LET recent_nullifiers == fetchall(r.rows) IN
            /\ db' = r.db
            /\ locals' = Bind("recent_nullifiers", recent_nullifiers)
            /\ out' = Append(out, Line("recent_nullifiers", ""))
                        \o RowLines("nullifier", recent_nullifiers)
            /\ pc' = "count_commits"
            /\ UNCHANGED exc
       \/ /\ Raise("DatabaseError: recent nullifiers")
          /\ UNCHANGED <<db, locals, out>>
    /\ UNCHANGED <<environ, database_url, conn, cur, exit_code>>

\* the state-commit count, its line, and the guard of the detail query
CountCommits ==
    /\ pc = "count_commits"
    /\ Call("execute", CommitCountStmt)
    /\ \/ \E r \in Exec(CommitCountStmt, db) :
            LET commit_count == fetchone(r.rows)[1][1] IN
            /\ db' = r.db
            /\ locals' = Bind("commit_count", commit_count)
            /\ out' = Append(out, Line("state_commits", commit_count))
            /\ pc' = IF CommitGuard(commit_count)
                     THEN "recent_commits" ELSE "tree_state"
            /\ UNCHANGED exc
       \/ /\ Raise("DatabaseError: commit count")
          /\ UNCHANGED <<db, locals, out>>
    /\ UNCHANGED <<environ, database_url, conn, cur, exit_code>>

\* the recent state commits and their lines
FetchRecentCommits ==
    /\ pc = "recent_commits"
    /\ Call("execute", RecentCommitsStmt)
    /\ \/ \E r \in Exec(RecentCommitsStmt, db) :
            LET recent_commits == fetchall(r.rows) IN
            /\ db' = r.db
            /\ locals' = Bind("recent_commits", recent_commits)
            /\ out' = Append(out, Line("recent_commits", ""))
                        \o RowLines("commit", recent_commits)
            /\ pc' = "tree_state"
            /\ UNCHANGED exc
       \/ /\ Raise("DatabaseError: recent commits")
          /\ UNCHANGED <<db, locals, out>>
    /\ UNCHANGED <<environ, database_url, conn, cur, exit_code>>

\* the tree_state row of tree_id 'default', or the not-found line
FetchTreeState ==
    /\ pc = "tree_state"
    /\ Call("execute", TreeStateStmt)
    /\ \/ \E r \in Exec(TreeStateStmt, db) :
            LET tree_state == fetchone(r.rows) IN
            /\ db' = r.db
            /\ locals' = Bind("tree_state", tree_state)
            /\ out' = out \o TreeStateLines(tree_state)
            /\ pc' = "recent_batches"
            /\ UNCHANGED exc
       \/ /\ Raise("DatabaseError: tree state")
          /\ UNCHANGED <<db, locals, out>>
    /\ UNCHANGED <<environ, database_url, conn, cur, exit_code>>

\* the recent proof batches and their lines
FetchRecentBatches ==
    /\ pc = "recent_batches"
    /\ Call("execute", RecentBatchesStmt)
    /\ \/ \E r \in Exec(RecentBatchesStmt, db) :
            LET recent_batches == fetchall(r.rows) IN
            /\ db' = r.db
            /\ locals' = Bind("recent_batches", recent_batches)
            /\ out' = Append(out, Line("recent_batches", ""))
                        \o RowLines("batch", recent_batches)
            /\ pc' = "close"
            /\ UNCHANGED exc
       \/ /\ Raise("DatabaseError: recent batches")
          /\ UNCHANGED <<db, locals, out>>
    /\ UNCHANGED <<environ, database_url, conn, cur, exit_code>>

\* cur.close(); conn.close(); the script then runs off its end
Close ==
    /\ pc = "close"
    /\ calls' = calls \o <<[op |-> "cur.close", arg |-> ""], [op |-> "conn.close", arg |-> ""]>>
    /\ cur' = "closed"
    /\ conn' = "closed"
    /\ pc' = "done"
    /\ exit_code' = <<EndOfScriptStatus>>
    /\ UNCHANGED <<environ, database_url, db, locals, exc, out>>

\* except Exception as e: the two lines; the script then runs off its end
Except ==
    /\ pc = "except"
    /\ out' = out \o ErrorReport(exc, database_url)
    /\ pc' = "done"
    /\ exit_code' = <<EndOfScriptStatus>>
    /\ UNCHANGED <<environ, database_url, db, conn, cur, locals, exc, calls>>

Next ==
    \/ Connect
    \/ Cursor
    \/ CountNullifiers
    \/ FetchRecentNullifiers
    \/ CountCommits
    \/ FetchRecentCommits
    \/ FetchTreeState
    \/ FetchRecentBatches
    \/ Close
    \/ Except

Spec == Init /\ [][Next]_vars

-----------------------------------------------------------------------------
(* What a run did, read off the state *)

Bound(name) == name \in DOMAIN locals

Kinds == [i \in DOMAIN out |-> out[i].kind]

CountKind(kind) == Cardinality({i \in DOMAIN out : out[i].kind = kind})

IsExecute(i) == calls[i].op = "execute"

IsCountOn(i, table) ==
    IsExecute(i) /\ calls[i].arg.table = table /\ calls[i].arg.cols = "COUNT(*)"

IsDetailOn(i, table) ==
    IsExecute(i) /\ calls[i].arg.table = table /\ calls[i].arg.cols # "COUNT(*)"

NumExecuted == Cardinality({i \in DOMAIN calls : IsExecute(i)})

NumOn(table) == Cardinality({i \in DOMAIN calls : IsExecute(i) /\ calls[i].arg.table = table})

NumCalls(op) == Cardinality({i \in DOMAIN calls : calls[i].op = op})

ConnectFailed == conn = "unbound" /\ pc \in {"except", "done"}

Succeeded == pc = "done" /\ exc = "none"

Target == IF "DATABASE_URL" \in DOMAIN environ THEN environ["DATABASE_URL"] ELSE DefaultUrl

ActiveNullifiers == SumOver(db.nullifiers, {r \in NullifierRows : r.is_active})

StateCommits == Size(db.ads_state_commits)

ProofBatches == Size(db.proof_batches)

DefaultTreeRow == [tree_id |-> "default"]

-----------------------------------------------------------------------------
\* C1: when psycopg2.connect fails, no query has been executed, and the run
\* ends having printed exactly the error line and the line carrying the
\* attempted connection target (the value of DATABASE_URL, or the default).
C1_ConnectFailureReported ==
    ConnectFailed =>
        /\ NumExecuted = 0
        /\ NumCalls("cursor") = 0
        /\ pc = "except" => out = <<>> /\ ENABLED Except
        /\ pc = "done" =>
            /\ Kinds = <<"error", "hint">>
            /\ out[2].val = Target

\* a run whose connect failed with DATABASE_URL unset, after its report
C1_Witness == ConnectFailed /\ pc = "done" /\ environ = EmptyEnviron

\* C2: for the nullifiers and the ads_state_commits table, a count of 0 means
\* the count query is the only statement issued on that table; a detail query
\* is issued only directly after the count query of its table read a count
\* greater than 0.
C2_DetailOnlyWhenCounted ==
    /\ (Bound("nullifier_count") /\ locals["nullifier_count"] = 0) =>
            NumOn("nullifiers") = 1 /\ \E i \in DOMAIN calls : IsCountOn(i, "nullifiers")
    /\ (Bound("commit_count") /\ locals["commit_count"] = 0) =>
            NumOn("ads_state_commits") = 1
                /\ \E i \in DOMAIN calls : IsCountOn(i, "ads_state_commits")
    /\ \A i \in DOMAIN calls :
        /\ IsDetailOn(i, "nullifiers") =>
            /\ i > 1 /\ IsCountOn(i - 1, "nullifiers")
            /\ Bound("nullifier_count") /\ locals["nullifier_count"] > 0
        /\ IsDetailOn(i, "ads_state_commits") =>
            /\ i > 1 /\ IsCountOn(i - 1, "ads_state_commits")
            /\ Bound("commit_count") /\ locals["commit_count"] > 0

\* a finished run that skipped the nullifier detail query and issued the commit one
C2_Witness ==
    /\ Succeeded
    /\ locals["nullifier_count"] = 0 /\ locals["commit_count"] > 0
    /\ NumOn("nullifiers") = 1 /\ NumOn("ads_state_commits") = 2

\* C3: each recent-rows result has at most 3 elements in descending created_at
\* order; the nullifier result holds active rows only; the batches result is
\* taken over every proof_batches row (it has 3 rows, or all of them if fewer).
C3_RecentRows ==
    /\ \A name \in {"recent_nullifiers", "recent_commits", "recent_batches"} :
        Bound(name) => Len(locals[name]) <= 3 /\ SortedDesc(locals[name])
    /\ Bound("recent_nullifiers") =>
        \A i \in DOMAIN locals["recent_nullifiers"] : locals["recent_nullifiers"][i].is_active
    /\ Bound("recent_batches") =>
        Len(locals["recent_batches"]) = Min(ProofBatches, 3)

\* three active nullifiers of different age fetched from a table that also
\* holds an inactive one
C3_Witness ==
    /\ Bound("recent_nullifiers")
    /\ Len(locals["recent_nullifiers"]) = 3
    /\ locals["recent_nullifiers"][1].created_at > locals["recent_nullifiers"][3].created_at
    /\ \E r \in NullifierRows : ~r.is_active /\ db.nullifiers[r] > 0

\* C7: the exit status tells success from failure: 0 exactly when no exception
\* was caught.
C7_ExitCodeDistinguishes ==
    pc = "done" => (exit_code[1] = 0 <=> exc = "none")

\* C9: one connection and one cursor at most are acquired, and a run that
\* acquired both has closed both when it ends.
C9_ClosedWhenAcquired ==
    /\ NumCalls("connect") <= 1 /\ NumCalls("cursor") <= 1
    /\ (pc = "done" /\ conn # "unbound" /\ cur # "unbound") =>
            conn = "closed" /\ cur = "closed"

-----------------------------------------------------------------------------
Rep(kind, n) == [i \in 1..n |-> kind]

\* the kinds of the lines of a run without failure, from the table contents
ExpectedKinds ==
    <<"checking", "active_nullifiers">>
    \o (IF ActiveNullifiers > 0
        THEN <<"recent_nullifiers">> \o Rep("nullifier", Min(ActiveNullifiers, 3)) ELSE <<>>)
    \o <<"state_commits">>
    \o (IF StateCommits > 0
        THEN <<"recent_commits">> \o Rep("commit", Min(StateCommits, 3)) ELSE <<>>)
    \o (IF db.tree_state[DefaultTreeRow] > 0 THEN <<"tree_state">> ELSE <<"no_tree_state">>)
    \o <<"recent_batches">> \o Rep("batch", Min(ProofBatches, 3))

\* position in the script of a psycopg2 call
CallRank(i) ==
    CASE calls[i].op = "connect" -> 1
      [] calls[i].op = "cursor" -> 2
      [] IsCountOn(i, "nullifiers") -> 3
      [] IsDetailOn(i, "nullifiers") -> 4
      [] IsCountOn(i, "ads_state_commits") -> 5
      [] IsDetailOn(i, "ads_state_commits") -> 6
      [] IsExecute(i) /\ calls[i].arg.table = "tree_state" -> 7
      [] IsExecute(i) /\ calls[i].arg.table = "proof_batches" -> 8
      [] calls[i].op = "cur.close" -> 9
      [] calls[i].op = "conn.close" -> 10

\* position in the script of a value of pc
PcRank(p) ==
    CASE p = "connect" -> 1
      [] p = "cursor" -> 2
      [] p = "count_nullifiers" -> 3
      [] p = "recent_nullifiers" -> 4
      [] p = "count_commits" -> 5
      [] p = "recent_commits" -> 6
      [] p = "tree_state" -> 7
      [] p = "recent_batches" -> 8
      [] p = "close" -> 9
      [] p = "except" -> 11
      [] p = "done" -> 12

\* C4: with no tree_state row of tree_id 'default', a lookup that did not raise
\* binds None and prints the not-found line once (and no values line), the next
\* statement issued is the proof_batches query, a failure after the lookup is a
\* failure of that query and not of the lookup, and the run that then meets no
\* exception ends with exit status 0.
C4_TreeStateNotFound ==
    (db.tree_state[DefaultTreeRow] = 0 /\ Bound("tree_state")) =>
        /\ locals["tree_state"] = <<>>
        /\ CountKind("no_tree_state") = 1 /\ CountKind("tree_state") = 0
        /\ pc \in {"recent_batches", "close", "except", "done"}
        /\ pc = "recent_batches" => exc = "none" /\ out[Len(out)].kind = "no_tree_state"
        /\ pc # "recent_batches" =>
            \E i \in DOMAIN calls :
                /\ i > 1 /\ CallRank(i) = 8 /\ CallRank(i - 1) = 7
                /\ exc # "none" => i = Len(calls)
        /\ pc = "close" => exc = "none"
        /\ Succeeded => exit_code = <<0>>

\* a finished run without failure on a tree_state table holding only another tree
C4_Witness ==
    /\ Succeeded /\ exit_code = <<0>>
    /\ db.tree_state[DefaultTreeRow] = 0 /\ db.tree_state[[tree_id |-> "other"]] = 1
    /\ CountKind("no_tree_state") = 1

\* C5: a run without failure prints, in this order, the active-nullifier count
\* n and min(n,3) nullifier lines, the commit count c and min(c,3) commit lines,
\* one tree-state line (values if the 'default' row exists, not-found
\* otherwise) and min(b,3) batch lines, and exits with status 0.
C5_OutputOfSuccessfulRun ==
    Succeeded =>
        /\ Kinds = ExpectedKinds
        /\ out[2].val = ActiveNullifiers
        /\ \E i \in DOMAIN out : out[i].kind = "state_commits" /\ out[i].val = StateCommits
        /\ CountKind("nullifier") = Min(ActiveNullifiers, 3)
        /\ CountKind("commit") = Min(StateCommits, 3)
        /\ CountKind("batch") = Min(ProofBatches, 3)
        /\ CountKind("tree_state") + CountKind("no_tree_state") = 1
        /\ CountKind("error") = 0 /\ CountKind("hint") = 0
        /\ exit_code = <<0>>

\* a finished run without failure over more than three active nullifiers
C5_Witness == Succeeded /\ ActiveNullifiers > 3 /\ CountKind("nullifier") = 3

AllSelect == \A i \in DOMAIN calls : IsExecute(i) => calls[i].arg.kind = "SELECT"

\* C6: no step of the tool changes the contents of the four tables, and every
\* statement it has issued is a SELECT.
C6_ReadOnly == [][db' = db]_vars /\ []AllSelect

\* a finished run that issued all six statements on a database with rows
C6_Witness == pc = "done" /\ NumExecuted = 6 /\ ProofBatches > 0

\* C8: once an exception is raised the handler is entered; its only step prints
\* the error line and the target line and ends the run, issuing no call; a
\* finished run has either no error report (no exception) or exactly one, as its
\* last two lines; no call is made twice; every step moves forward in the
\* script and a run that has not ended can always take a step.
C8_SingleHandler ==
    /\ [][/\ PcRank(pc') > PcRank(pc)
          /\ pc' = "except" => out' = out /\ exc' # "none" /\ exc = "none"
          /\ pc = "except" =>
                /\ pc' = "done" /\ calls' = calls
                /\ Len(out') = Len(out) + 2
                /\ SubSeq(out', 1, Len(out)) = out
                /\ out'[Len(out) + 1].kind = "error"
                /\ out'[Len(out) + 2].kind = "hint"
                /\ out'[Len(out) + 2].val = database_url]_vars
    /\ [](/\ exc # "none" => pc \in {"except", "done"}
          /\ pc = "except" => CountKind("error") = 0 /\ CountKind("hint") = 0
          /\ pc = "done" =>
                /\ CountKind("error") = (IF exc = "none" THEN 0 ELSE 1)
                /\ CountKind("hint") = CountKind("error")
          /\ \A i, j \in DOMAIN calls : i < j => CallRank(i) < CallRank(j)
          /\ pc = "done" \/ ENABLED Next)

\* a run ended by the handler after the commit lines were printed
C8_Witness ==
    /\ pc = "done" /\ exc = "DatabaseError: tree state"
    /\ CountKind("commit") > 0 /\ CountKind("hint") = 1

\* the order of the calls made so far
C10_Order ==
    /\ calls # <<>> => CallRank(1) = 1
    /\ \A i \in DOMAIN calls : i > 1 =>
        \/ CallRank(i) = CallRank(i - 1) + 1
        \/ /\ CallRank(i - 1) = 3 /\ CallRank(i) = 5 /\ ActiveNullifiers = 0
        \/ /\ CallRank(i - 1) = 5 /\ CallRank(i) = 7 /\ StateCommits = 0
    /\ \A i \in DOMAIN calls :
        /\ CallRank(i) = 4 => ActiveNullifiers > 0
        /\ CallRank(i) = 6 => StateCommits > 0
    /\ NumExecuted > 0 => conn = "open" \/ (conn = "closed" /\ pc = "done")
    /\ NumExecuted > 0 => cur = "open" \/ (cur = "closed" /\ pc = "done")
    /\ pc \in {"connect", "cursor"} => NumExecuted = 0

\* C10: the calls are made in the order connect, cursor, nullifier count,
\* nullifier detail, commit count, commit detail, tree-state lookup, batches,
\* close; only a detail query can be left out, and it is left out exactly when
\* its count is 0; a statement is issued only on an open connection and cursor;
\* nothing is called after an exception; a run without failure issues
\* 4 + [n > 0] + [c > 0] statements, between 4 and 6, and ends with the close.
C10_FixedOrder ==
    /\ [][exc # "none" => calls' = calls]_vars
    /\ [](/\ C10_Order
          /\ Succeeded =>
                /\ NumExecuted = 4 + (IF ActiveNullifiers > 0 THEN 1 ELSE 0)
                                   + (IF StateCommits > 0 THEN 1 ELSE 0)
                /\ NumExecuted \in 4..6
                /\ CallRank(Len(calls)) = 10)

\* C10 as stated: the same order, and a run without failure issues
\* 3 + [n > 0] + [c > 0] statements, between 3 and 5.
C10_ThreeToFiveQueries ==
    /\ C10_Order
    /\ Succeeded =>
        /\ NumExecuted = 3 + (IF ActiveNullifiers > 0 THEN 1 ELSE 0)
                           + (IF StateCommits > 0 THEN 1 ELSE 0)
        /\ NumExecuted \in 3..5

\* a finished run without failure that issued both detail queries
C10_Witness == Succeeded /\ NumExecuted = 6 /\ Len(calls) = 10

====
